---- MODULE Spec2Model ----
(***************************************************************************)
(* Model of Experiments/ODE_Solvers/ode_solvers.py: the fixed-step RK4     *)
(* integrator runge_kutta4 and the dc_motor_ode vector field.              *)
(*                                                                         *)
(* Numbers.  The program computes in IEEE-754 binary floating point with   *)
(* round-to-nearest, ties-to-even.  The model keeps that arithmetic and    *)
(* scales the format down: a float is an integer count of units of         *)
(* 2^-FracBits (the subnormal grid), with at most Precision significant    *)
(* bits.  The exponent is unbounded above: the inputs are small, so no     *)
(* operation overflows, and infinities and NaN are not modelled.           *)
(*                                                                         *)
(* Arrays.  A numpy 1-d array is a sequence of floats; a scalar returned   *)
(* by a field behaves under broadcasting as an array of length 1 and is    *)
(* modelled as one.                                                        *)
(***************************************************************************)
EXTENDS Integers, Sequences, FiniteSets, TLC

\* Significant bits of the scaled-down floating-point format.
Precision == 3
\* Fraction bits of the finest grid: one unit is 2^-FracBits.
FracBits == 1
\* Largest time value (in units) a call is started with.
MaxTime == 10
\* Largest step magnitude (in units) a call is started with.
MaxDt == 2

RECURSIVE Pow2(_)
Pow2(k) == IF k = 0 THEN 1 ELSE 2 * Pow2(k - 1)

\* The value 1.0 in units.
Unit == Pow2(FracBits)

Abs(x) == IF x < 0 THEN -x ELSE x

Max(a, b) == IF a >= b THEN a ELSE b

(***************************************************************************)
(* Rounding of the rational num/den (in units) to the nearest float.       *)
(***************************************************************************)
RECURSIVE Ulp(_, _, _)
\* Spacing of the floats around num/den >= 0: the least power of two u
\* with num/den < 2^Precision * u.
Ulp(num, den, u) ==
  IF num < Pow2(Precision) * u * den THEN u ELSE Ulp(num, den, 2 * u)

\* num >= 0, den > 0: round to nearest, ties to the even significand.
RndPos(num, den) ==
  LET u == Ulp(num, den, 1)
      k == num \div (den * u)
      r == num - k * den * u
  IN  IF 2 * r < den * u THEN k * u
      ELSE IF 2 * r > den * u THEN (k + 1) * u
      ELSE IF k % 2 = 0 THEN k * u ELSE (k + 1) * u

\* den # 0.  Rounding is symmetric about zero.
Rnd(num, den) ==
  LET n == IF den < 0 THEN -num ELSE num
      d == Abs(den)
  IN  IF n >= 0 THEN RndPos(n, d) ELSE -RndPos(-n, d)

IsFloat(x) == Rnd(x, 1) = x

\* float + float, float - float, float * float, float / float (b # 0).
FAdd(a, b) == Rnd(a + b, 1)
FSub(a, b) == Rnd(a - b, 1)
FMul(a, b) == Rnd(a * b, Unit)
FDiv(a, b) == Rnd(a * Unit, b)
\* int * float and float / int, the int converted exactly.
FMulInt(m, a) == Rnd(m * a, 1)
FDivInt(a, m) == Rnd(a, m)

\* Whether the operation rounds nothing away.
ExAdd(a, b) == FAdd(a, b) = a + b
ExMul(a, b) == FMul(a, b) * Unit = a * b
ExMulInt(m, a) == FMulInt(m, a) = m * a
ExDivInt(a, m) == FDivInt(a, m) * m = a

(***************************************************************************)
(* numpy elementwise arithmetic with broadcasting of 1-d arrays.           *)
(***************************************************************************)
\* Shapes (a,) and (b,) broadcast together iff equal or one of them is 1.
Compat(a, b) == Len(a) = Len(b) \/ Len(a) = 1 \/ Len(b) = 1

BLen(a, b) == Max(Len(a), Len(b))

At(a, j) == IF Len(a) = 1 THEN a[1] ELSE a[j]

VAdd(a, b) == [j \in 1..BLen(a, b) |-> FAdd(At(a, j), At(b, j))]
VScale(a, c) == [j \in 1..Len(a) |-> FMul(a[j], c)]
VMulInt(m, a) == [j \in 1..Len(a) |-> FMulInt(m, a[j])]
VDivInt(a, m) == [j \in 1..Len(a) |-> FDivInt(a[j], m)]

VExAdd(a, b) == \A j \in 1..BLen(a, b) : ExAdd(At(a, j), At(b, j))
VExScale(a, c) == \A j \in 1..Len(a) : ExMul(a[j], c)
VExMulInt(m, a) == \A j \in 1..Len(a) : ExMulInt(m, a[j])
VExDivInt(a, m) == \A j \in 1..Len(a) : ExDivInt(a[j], m)

Zeros(d) == [j \in 1..d |-> 0]
Ones(d) == [j \in 1..d |-> Unit]

(***************************************************************************)
(* Vector fields.  runge_kutta4 takes the field f as an argument; the     *)
(* model draws it from a small family named by FieldSet.  "motor" is       *)
(* dc_motor_ode; the others stand for fields a caller may supply.          *)
(***************************************************************************)
\* The time (in units) from which the "guard" field raises.
GuardLimit == 3

FieldSet == {"zero", "ones", "decay", "motor", "narrow", "wide", "guard"}

\* dc_motor_ode: the two state equations.
dc_motor_ode(state, params) ==
  LET w == state[1]
      c == state[2]
      J == params[1]
      b == params[2]
      Kt == params[3]
      Ke == params[4]
      R == params[5]
      L == params[6]
      u == params[7]
  IN  << FDiv(FSub(FMul(Kt, c), FMul(b, w)), J),
         FDiv(FSub(FSub(u, FMul(R, c)), FMul(Ke, w)), L) >>

\* The exception the field raises at (s, tt, p), "" when it returns.
FieldError(f, s, tt, p) ==
  CASE f = "motor" -> IF Len(s) # 2 \/ Len(p) # 7 THEN "ValueError" ELSE ""
    [] f = "guard" -> IF tt >= GuardLimit THEN "ArithmeticError" ELSE ""
    [] OTHER -> ""

\* The derivative the field returns at (s, tt, p), when it returns.
FieldVal(f, s, tt, p) ==
  CASE f = "zero" -> Zeros(Len(s))
    [] f = "ones" -> Ones(Len(s))
    [] f = "guard" -> Ones(Len(s))
    [] f = "decay" -> [j \in 1..Len(s) |-> -s[j]]
    [] f = "motor" -> dc_motor_ode(s, p)
    [] f = "narrow" -> Ones(1)
    [] f = "wide" -> Ones(Len(s) + 1)

(***************************************************************************)
(* np.arange(t0, tf, dt) on floats.                                        *)
(***************************************************************************)
\* ceil of the float v (in units) as an integer.
CeilUnits(v) ==
  IF v >= 0 THEN (v + Unit - 1) \div Unit ELSE -((-v) \div Unit)

\* The length numpy computes: ceil((tf - t0)/dt) in floating point, with
\* its underflow rule for a quotient that rounds to zero.
ArangeLen(t0, tf, h) ==
  LET q == FSub(tf, t0)
      v == FDiv(q, h)
  IN  IF v = 0 /\ q # 0
        THEN IF (q < 0) # (h < 0) THEN 0 ELSE 1
        ELSE Max(CeilUnits(v), 0)

\* The values numpy fills in: t0, t0 + dt, then t0 + k*delta with
\* delta = (t0 + dt) - t0.
ArangeItem(t0, h, k) ==
  IF k = 0 THEN t0
  ELSE IF k = 1 THEN FAdd(t0, h)
  ELSE FAdd(t0, FMulInt(k, FSub(FAdd(t0, h), t0)))

Arange(t0, tf, h) ==
  [k \in 1..ArangeLen(t0, tf, h) |-> ArangeItem(t0, h, k - 1)]

(***************************************************************************)
(* The arithmetic of one RK4 step, as the code writes it.                  *)
(***************************************************************************)
\* f(...) * dt
StageK(d, h) == VScale(d, h)

\* state[i] + k/2 and state[i] + k
HalfStep(s, K) == VAdd(s, VDivInt(K, 2))
FullStep(s, K) == VAdd(s, K)

\* t[i] + dt/2 and t[i] + dt
HalfTime(tt, h) == FAdd(tt, FDivInt(h, 2))
FullTime(tt, h) == FAdd(tt, h)

\* Mutant of WeightedSum: the inner weights are dropped.
WeightedSumUnweighted(K1, K2, K3, K4) ==
  VAdd(VAdd(VAdd(K1, K2), K3), K4)

\* k1 + 2*k2 + 2*k3 + k4, left to right
WeightedSum(K1, K2, K3, K4) ==
  VAdd(VAdd(VAdd(K1, VMulInt(2, K2)), VMulInt(2, K3)), K4)

\* The shapes of k1 + 2*k2 + 2*k3 + k4 broadcast at every +.
SumCompat(K1, K2, K3, K4) ==
  /\ Compat(K1, K2)
  /\ Compat(VAdd(K1, K2), K3)
  /\ Compat(VAdd(VAdd(K1, K2), K3), K4)

Increment(K1, K2, K3, K4) == VDivInt(WeightedSum(K1, K2, K3, K4), 6)

\* Mutant of NextState: the increment is stored without state[i].
NextStateNoBase(s, K1, K2, K3, K4) ==
  VAdd(Zeros(Len(s)), Increment(K1, K2, K3, K4))

\* state[i] + (k1 + 2*k2 + 2*k3 + k4) / 6
NextState(s, K1, K2, K3, K4) == VAdd(s, Increment(K1, K2, K3, K4))

\* A value of shape (m,) can be stored into a row of shape (d,).
AssignOk(row, val) == Len(val) = Len(row) \/ Len(val) = 1

\* np.zeros((n, len(state0))) followed by state[0] = state0
AllocState(nn, s0) ==
  [r \in 1..nn |-> IF r = 1 THEN s0 ELSE Zeros(Len(s0))]

\* No floating-point operation of the line rounds.
ExHalfStep(s, K) == VExDivInt(K, 2) /\ VExAdd(s, VDivInt(K, 2))
ExHalfTime(tt, h) == ExDivInt(h, 2) /\ ExAdd(tt, FDivInt(h, 2))
ExNextState(s, K1, K2, K3, K4) ==
  /\ VExMulInt(2, K2)
  /\ VExMulInt(2, K3)
  /\ VExAdd(K1, VMulInt(2, K2))
  /\ VExAdd(VAdd(K1, VMulInt(2, K2)), VMulInt(2, K3))
  /\ VExAdd(VAdd(VAdd(K1, VMulInt(2, K2)), VMulInt(2, K3)), K4)
  /\ VExDivInt(WeightedSum(K1, K2, K3, K4), 6)
  /\ VExAdd(s, Increment(K1, K2, K3, K4))

(***************************************************************************)
(* The call runge_kutta4(f, state0, t_span, dt, params) as a state machine.*)
(***************************************************************************)
VARIABLES
  args,        \* what the caller supplied: f, state0, t_span, dt, params,
               \* and whether the numbers are numpy scalars (np) or floats
  state0,      \* the caller's state0 list (an object the callee could write)
  params,      \* the caller's params list (likewise)
  pc,          \* the line the call is at
  t,           \* local t
  n,           \* local n
  state,       \* local state, a sequence of rows
  i,           \* the loop variable
  k1, k2, k3, k4,  \* locals k1..k4
  outcome,     \* "none" while running, "returned", or the exception raised
  result,      \* << >>, or <<the returned (t, state)>>
  call,        \* 1 for the first call, 2 for the repeated one
  first,       \* << >>, or <<outcome and result of the first call>>
  evals,       \* history: field evaluations of this call
  seenParams,  \* history: the params values the field was handed
  stage,       \* history: the evaluations of the current step
  exact,       \* history: no operation of the current step has rounded
  mismatch,    \* history: the field returned a wrongly sized derivative
  fieldErr     \* history: the exception the field raised, "" if none

vars == << args, state0, params, pc, t, n, state, i, k1, k2, k3, k4, outcome,
           result, call, first, evals, seenParams, stage, exact, mismatch,
           fieldErr >>

locals == << t, n, state, i, k1, k2, k3, k4 >>
history == << evals, seenParams, stage, exact, mismatch, fieldErr >>
caller == << args, state0, params, call, first >>

\* The floats of the scaled-down format the calls are started with.
TimeSet == {x \in 0..MaxTime : IsFloat(x)}
DtSet == {x \in (-MaxDt)..MaxDt : IsFloat(x)}
State0Set == {<<Unit>>, <<0, 0>>, <<Unit, 0>>}
\* J, b, Kt, Ke, R, L, u
ParamsOf(f) ==
  IF f = "motor"
    THEN {<<Unit, Unit, Unit, Unit, Unit, Unit, Unit>>,
          <<Unit, Unit, Unit, Unit, Unit, Unit, 0>>}
    ELSE {<<Unit, Unit, Unit, Unit, Unit, Unit, Unit>>}

\* Python floats and numpy float64 scalars compute alike except in the
\* division by a zero dt, so the two are told apart only there.
NumpyScalarsOf(h) == IF h = 0 THEN BOOLEAN ELSE {FALSE}

Init ==
  /\ \E f \in FieldSet, s0 \in State0Set, t0 \in TimeSet, tf \in TimeSet,
        h \in DtSet :
       \E p \in ParamsOf(f), np \in NumpyScalarsOf(h) :
         /\ args = [f |-> f, state0 |-> s0, t_span |-> <<t0, tf>>, dt |-> h,
                    params |-> p, np |-> np]
         /\ state0 = s0
         /\ params = p
  /\ pc = "arange"
  /\ t = << >>
  /\ n = 0
  /\ state = << >>
  /\ i = 0
  /\ k1 = << >>
  /\ k2 = << >>
  /\ k3 = << >>
  /\ k4 = << >>
  /\ outcome = "none"
  /\ result = << >>
  /\ call = 1
  /\ first = << >>
  /\ evals = 0
  /\ seenParams = {}
  /\ stage = << >>
  /\ exact = TRUE
  /\ mismatch = FALSE
  /\ fieldErr = ""

\* Mutant of Propagate: the loop is left on an exception and what was
\* computed so far is returned.
Swallow(err, tt, st) ==
  [pc |-> "done", outcome |-> "returned",
   result |-> << [t |-> tt, state |-> st] >>]

\* An exception leaves runge_kutta4, which has no handler: the call ends
\* with the exception and returns nothing.
Propagate(err, tt, st) ==
  [pc |-> "raised", outcome |-> err, result |-> << >>]

Raise(err) ==
  LET r == Propagate(err, t, state)
  IN  /\ pc' = r.pc
      /\ outcome' = r.outcome
      /\ result' = r.result

\* Mutant of PassParams: a slice of params is handed on.
PassParamsSliced(p) == Tail(p)

\* The params value handed to the field.
PassParams(p) == p

\* Mutant of CallerState0: the running state is the caller's list itself.
CallerState0Aliased(s0, row) == row

\* What a store into state[i+1] leaves in the caller's state0 list:
\* state[0] = state0 copied its values, the rows are the callee's own.
CallerState0(s0, row) == s0

\* The exception of np.arange for a zero step: the division raises for
\* Python floats; for numpy scalars it gives inf or nan, and the length
\* cannot be computed.
ZeroStepError(np) == IF np THEN "ValueError" ELSE "ZeroDivisionError"

\* Lines 31-33.
ArangeStep ==
  /\ pc = "arange"
  /\ IF args.dt = 0
       THEN /\ Raise(ZeroStepError(args.np))
            /\ UNCHANGED << locals, history, caller >>
       ELSE /\ t' = Arange(args.t_span[1], args.t_span[2], args.dt)
            /\ n' = Len(t')
            /\ pc' = "alloc"
            /\ UNCHANGED << state, i, k1, k2, k3, k4, outcome, result,
                            history, caller >>

\* Lines 36-37 and the first test of the for loop.  state[0] of an array
\* with no rows raises IndexError.
AllocStep ==
  /\ pc = "alloc"
  /\ IF n = 0
       THEN /\ state' = << >>
            /\ Raise("IndexError")
            /\ UNCHANGED << t, n, i, k1, k2, k3, k4, history, caller >>
       ELSE /\ state' = AllocState(n, state0)
            /\ i' = 0
            /\ pc' = IF 0 < n - 1 THEN "k1" ELSE "ret"
            /\ UNCHANGED << t, n, k1, k2, k3, k4, outcome, result, history,
                            caller >>

\* One evaluation k = f(x, tt, params) * dt.  ok is whether the argument
\* expression could be formed (the shapes broadcast), ex whether forming it
\* rounded nothing.
Eval(ok, x, tt, ex, here, next) ==
  /\ pc = here
  /\ IF ~ok
       THEN /\ Raise("ValueError")
            /\ UNCHANGED << locals, history, caller >>
       ELSE LET p == PassParams(params)
                e == FieldError(args.f, x, tt, p)
                d == FieldVal(args.f, x, tt, p)
            IN  /\ evals' = evals + 1
                /\ seenParams' = seenParams \cup {p}
                /\ IF e # ""
                     THEN /\ Raise(e)
                          /\ fieldErr' = e
                          /\ UNCHANGED << locals, stage, exact, mismatch,
                                          caller >>
                     ELSE /\ k1' = IF here = "k1" THEN StageK(d, args.dt) ELSE k1
                          /\ k2' = IF here = "k2" THEN StageK(d, args.dt) ELSE k2
                          /\ k3' = IF here = "k3" THEN StageK(d, args.dt) ELSE k3
                          /\ k4' = IF here = "k4" THEN StageK(d, args.dt) ELSE k4
                          /\ stage' = (IF here = "k1" THEN << >> ELSE stage)
                                        \o << [x |-> x, tt |-> tt, d |-> d] >>
                          /\ exact' = /\ (here = "k1" \/ exact)
                                      /\ ex
                                      /\ VExScale(d, args.dt)
                          /\ mismatch' = (mismatch \/ Len(d) # Len(x))
                          /\ pc' = next
                          /\ UNCHANGED << t, n, state, i, outcome, result,
                                          fieldErr, caller >>

\* Line 41
EvalK1 ==
  /\ pc = "k1"
  /\ Eval(TRUE, state[i + 1], t[i + 1], TRUE, "k1", "k2")

\* Line 42
EvalK2 ==
  /\ pc = "k2"
  /\ LET ok == Compat(state[i + 1], k1)
     IN  Eval(ok,
              IF ok THEN HalfStep(state[i + 1], k1) ELSE << >>,
              HalfTime(t[i + 1], args.dt),
              ok /\ ExHalfStep(state[i + 1], k1) /\ ExHalfTime(t[i + 1], args.dt),
              "k2", "k3")

\* Line 43
EvalK3 ==
  /\ pc = "k3"
  /\ LET ok == Compat(state[i + 1], k2)
     IN  Eval(ok,
              IF ok THEN HalfStep(state[i + 1], k2) ELSE << >>,
              HalfTime(t[i + 1], args.dt),
              ok /\ ExHalfStep(state[i + 1], k2) /\ ExHalfTime(t[i + 1], args.dt),
              "k3", "k4")

\* Line 44
EvalK4 ==
  /\ pc = "k4"
  /\ LET ok == Compat(state[i + 1], k3)
     IN  Eval(ok,
              IF ok THEN FullStep(state[i + 1], k3) ELSE << >>,
              FullTime(t[i + 1], args.dt),
              ok /\ VExAdd(state[i + 1], k3) /\ ExAdd(t[i + 1], args.dt),
              "k4", "update")

\* Mutant of StoreRow: the store goes to state[i].
StoreRowSame(ii) == ii + 1

\* The row (counted from 1) that state[i+1] = ... stores into.
StoreRow(ii) == ii + 2

\* Line 46 and the next test of the for loop.
Update ==
  /\ pc = "update"
  /\ LET s == state[i + 1]
         ok == /\ SumCompat(k1, k2, k3, k4)
               /\ Compat(s, WeightedSum(k1, k2, k3, k4))
               /\ AssignOk(s, NextState(s, k1, k2, k3, k4))
     IN  IF ~ok
           THEN /\ Raise("ValueError")
                /\ UNCHANGED << locals, history, caller >>
           ELSE LET row == NextState(s, k1, k2, k3, k4)
                IN  /\ state' = [state EXCEPT ![StoreRow(i)] = row]
                    /\ state0' = CallerState0(state0, row)
                    /\ exact' = (exact /\ ExNextState(s, k1, k2, k3, k4))
                    /\ i' = i + 1
                    /\ pc' = IF i + 1 < n - 1 THEN "k1" ELSE "ret"
                    /\ UNCHANGED << t, n, k1, k2, k3, k4, outcome, result,
                                    args, params, call, first, evals,
                                    seenParams, stage, mismatch, fieldErr >>

\* Line 48
Return ==
  /\ pc = "ret"
  /\ outcome' = "returned"
  /\ result' = << [t |-> t, state |-> state] >>
  /\ pc' = "done"
  /\ UNCHANGED << locals, history, caller >>

\* The caller calls again with the same arguments, as the script does at
\* line 151 and then, through ode_comparison, at line 77.  The callee's
\* locals are fresh.
CallAgain ==
  /\ pc \in {"done", "raised"}
  /\ call = 1
  /\ first' = << [outcome |-> outcome, result |-> result] >>
  /\ call' = 2
  /\ pc' = "arange"
  /\ t' = << >>
  /\ n' = 0
  /\ state' = << >>
  /\ i' = 0
  /\ k1' = << >>
  /\ k2' = << >>
  /\ k3' = << >>
  /\ k4' = << >>
  /\ outcome' = "none"
  /\ result' = << >>
  /\ evals' = 0
  /\ seenParams' = {}
  /\ stage' = << >>
  /\ exact' = TRUE
  /\ mismatch' = FALSE
  /\ fieldErr' = ""
  /\ UNCHANGED << args, state0, params >>

Next ==
  \/ ArangeStep
  \/ AllocStep
  \/ EvalK1
  \/ EvalK2
  \/ EvalK3
  \/ EvalK4
  \/ Update
  \/ Return
  \/ CallAgain

Spec == Init /\ [][Next]_vars

(***************************************************************************)
(* Properties.                                                             *)
(***************************************************************************)
T0 == args.t_span[1]
Tf == args.t_span[2]
Dt == args.dt
Terminal == pc \in {"done", "raised"}
Returned == outcome = "returned"
Times == result[1].t
States == result[1].state

\* ceil(a/b) over the reals, for a >= 0 and b > 0.
CeilDiv(a, b) == (a + b - 1) \div b

\* C1: a call with t0 < tf and dt > 0 that returns gives times and states
\* of the same length n = ceil((tf - t0)/dt), times[k] = t0 + k*dt for
\* every 0 <= k < n, and a half-open last sample:
\* times[n-1] < tf <= times[n-1] + dt.
C1_GridIsHalfOpenRange ==
  (Returned /\ T0 < Tf /\ Dt > 0) =>
    LET nn == CeilDiv(Tf - T0, Dt)
    IN  /\ Len(Times) = nn
        /\ Len(States) = nn
        /\ \A k \in 0..(Len(Times) - 1) : Times[k + 1] = T0 + k * Dt
        /\ Times[Len(Times)] < Tf
        /\ Tf <= Times[Len(Times)] + Dt

\* A step of the loop has just been completed: its four evaluations are
\* logged, and row i+1 (counted from 1) holds what it stored.
StepDone == Len(stage) = 4 /\ pc \in {"k1", "ret", "done"}

\* The reference formula of one RK4 step, evaluated in floating point as
\* written: k1 = f(s, t), k2 = f(s + h/2*k1, t + h/2), k3 = f(s + h/2*k2,
\* t + h/2), k4 = f(s + h*k3, t + h), s + h/6*(k1 + 2*k2 + 2*k3 + k4).
RefStep(f, s, tt, h, p) ==
  LET r1 == FieldVal(f, s, tt, p)
      r2 == FieldVal(f, VAdd(s, VScale(r1, FDivInt(h, 2))),
                     FAdd(tt, FDivInt(h, 2)), p)
      r3 == FieldVal(f, VAdd(s, VScale(r2, FDivInt(h, 2))),
                     FAdd(tt, FDivInt(h, 2)), p)
      r4 == FieldVal(f, VAdd(s, VScale(r3, h)), FAdd(tt, h), p)
  IN  VAdd(s, VScale(VAdd(VAdd(VAdd(r1, VMulInt(2, r2)), VMulInt(2, r3)), r4),
                     FDivInt(h, 6)))

\* The reference formula over the reals, on the derivatives the step
\* evaluated: 6*(next - s) = h*(k1 + 2*k2 + 2*k3 + k4), in units.
RealCombination(s, next) ==
  \A j \in 1..Len(s) :
    6 * Unit * (next[j] - s[j]) =
      Dt * (At(stage[1].d, j) + 2 * At(stage[2].d, j)
            + 2 * At(stage[3].d, j) + At(stage[4].d, j))

\* The reference stage points and times over the reals.
RealStages(s, tt) ==
  /\ stage[1].x = s
  /\ stage[1].tt = tt
  /\ \A j \in 1..Len(s) :
       /\ 2 * Unit * (stage[2].x[j] - s[j]) = Dt * At(stage[1].d, j)
       /\ 2 * Unit * (stage[3].x[j] - s[j]) = Dt * At(stage[2].d, j)
       /\ Unit * (stage[4].x[j] - s[j]) = Dt * At(stage[3].d, j)
  /\ 2 * (stage[2].tt - tt) = Dt
  /\ stage[3].tt = stage[2].tt
  /\ stage[4].tt - tt = Dt

\* C2 (as stated): after every step, the stored next state equals the
\* reference formula s + h/6*(k1 + 2*k2 + 2*k3 + k4); the code's variant,
\* which multiplies each k by dt first, gives the same result for every
\* input.  Either reading of the reference, in floating point or over the
\* reals, is accepted here.
C2_StepEqualsReference ==
  (StepDone /\ ~mismatch /\ T0 < Tf /\ Dt > 0) =>
    \/ state[i + 1] = RefStep(args.f, state[i], t[i], Dt, params)
    \/ RealCombination(state[i], state[i + 1])

\* The step as the code associates it, in floating point, on the
\* derivatives d1..d4: s + (d1*h + 2*(d2*h) + 2*(d3*h) + d4*h)/6.
PremultipliedStep(s, d1, d2, d3, d4, h) ==
  VAdd(s, VDivInt(VAdd(VAdd(VAdd(VScale(d1, h), VMulInt(2, VScale(d2, h))),
                            VMulInt(2, VScale(d3, h))),
                       VScale(d4, h)), 6))

\* The stage points and times as the code forms them, in floating point:
\* s, s + (d1*h)/2, s + (d2*h)/2, s + d3*h at t, t + h/2, t + h/2, t + h,
\* each derivative being the field's value there.
PremultipliedStages(s, tt, h) ==
  /\ stage[1].x = s
  /\ stage[2].x = VAdd(s, VDivInt(VScale(stage[1].d, h), 2))
  /\ stage[3].x = VAdd(s, VDivInt(VScale(stage[2].d, h), 2))
  /\ stage[4].x = VAdd(s, VScale(stage[3].d, h))
  /\ stage[1].tt = tt
  /\ stage[2].tt = FAdd(tt, FDivInt(h, 2))
  /\ stage[3].tt = FAdd(tt, FDivInt(h, 2))
  /\ stage[4].tt = FAdd(tt, h)
  /\ \A j \in 1..4 :
       stage[j].d = FieldVal(args.f, stage[j].x, stage[j].tt, args.params)

\* C2 (amended): after every step, the stored next state is the
\* pre-multiplied formula s + (dt*k1 + 2*dt*k2 + 2*dt*k3 + dt*k4)/6 in
\* floating point, with k1..k4 the field at s, s + (dt*k1)/2, s + (dt*k2)/2
\* and s + dt*k3, computed from row i alone; whenever none of the step's
\* floating-point operations rounds, the stage points, stage times and the
\* stored state are those of the reference formula; and a call that
\* returns has applied the update exactly n-1 times, with four evaluations
\* each.
C2_StepIsPremultipliedFormula ==
  /\ StepDone =>
       /\ PremultipliedStages(state[i], t[i], Dt)
       /\ state[i + 1] = PremultipliedStep(state[i], stage[1].d, stage[2].d,
                                           stage[3].d, stage[4].d, Dt)
       /\ evals >= 4 * i
       /\ exact => /\ RealStages(state[i], t[i])
                   /\ RealCombination(state[i], state[i + 1])
  /\ Returned => (i = n - 1 /\ evals = 4 * (n - 1))

\* A step with a non-zero increment, none of whose operations rounded.
C2_Witness ==
  /\ StepDone
  /\ T0 < Tf
  /\ Dt > 0
  /\ exact
  /\ state[i + 1] # state[i]
  /\ stage[2].x # stage[1].x
  /\ i >= 2

\* C3: a call with dt <= 0 is rejected with an explicit invalid-argument
\* error: it returns no trajectory and fails with no other error.
C3_NonPositiveStepRejected ==
  (Dt <= 0) => outcome \in {"none", "InvalidArgument"}

\* C4: a call with t0 >= tf and dt > 0 returns normally with an empty
\* trajectory, having evaluated the field not at all.
C4_EmptySpanReturnsEmpty ==
  (T0 >= Tf /\ Dt > 0 /\ Terminal) =>
    /\ Returned
    /\ Times = << >>
    /\ States = << >>
    /\ evals = 0

\* C5: if the field returns a derivative whose size differs from the
\* state it was given, the call reports an error and returns no trajectory.
C5_MismatchReported ==
  (mismatch /\ T0 < Tf /\ Dt > 0) => ~Returned

\* C6: row 0 of the states equals the supplied state0 exactly from its
\* allocation on, through every step of the loop and in what is returned,
\* and every row has as many components as state0.
C6_FirstRowIsState0 ==
  /\ (state # << >>) =>
       /\ state[1] = args.state0
       /\ Len(state) = n
       /\ \A r \in 1..Len(state) : Len(state[r]) = Len(args.state0)
  /\ Returned => (States = state /\ Len(Times) = Len(States))

\* A returned trajectory of three samples or more that moved away from a
\* non-zero state0.
C6_Witness ==
  /\ Returned
  /\ T0 < Tf
  /\ Dt > 0
  /\ Len(States) >= 3
  /\ States[1] # Zeros(Len(args.state0))
  /\ States[2] # States[1]
  /\ States[3] # States[2]

\* C7: for the zero field a call with t0 < tf and dt > 0 returns, and
\* every state of the returned trajectory equals state0 exactly.
C7_ZeroFieldKeepsState0 ==
  /\ (args.f = "zero" /\ T0 < Tf /\ Dt > 0 /\ Terminal) => Returned
  /\ (args.f = "zero" /\ Returned) =>
       /\ Len(States) = Len(Times)
       /\ Len(States) >= 1
       /\ \A r \in 1..Len(States) : States[r] = args.state0

\* The zero field integrated over three samples or more from a non-zero
\* state0.
C7_Witness ==
  /\ args.f = "zero"
  /\ Returned
  /\ T0 < Tf
  /\ Dt > 0
  /\ Len(States) >= 3
  /\ args.state0 # Zeros(Len(args.state0))

\* C8: an exception the field raises, at the first step or a later one,
\* leaves the call as it is, and the caller receives no trajectory.
C8_FieldErrorPropagates ==
  (fieldErr # "") =>
    /\ pc = "raised"
    /\ outcome = fieldErr
    /\ result = << >>

\* The field raised after at least one completed step.
C8_Witness ==
  /\ fieldErr = "ArithmeticError"
  /\ T0 < Tf
  /\ Dt > 0
  /\ pc = "raised"
  /\ i >= 1
  /\ state[2] # state[1]

\* C9: the second of two calls with identical arguments ends as the first
\* did: the same exception, or the same times and the same states.
C9_SecondCallEqualsFirst ==
  (call = 2 /\ Terminal) =>
    first = << [outcome |-> outcome, result |-> result] >>

\* A second call that returned three samples or more, the states moving.
C9_Witness ==
  /\ call = 2
  /\ T0 < Tf
  /\ Dt > 0
  /\ Returned
  /\ Len(States) >= 3
  /\ States[2] # States[1]
  /\ first[1].outcome = "returned"

\* C10: the caller's params and state0 hold throughout the values they
\* were supplied with, every evaluation of the field receives that params
\* value, and a call that returns has evaluated the field 4*(n-1) times.
C10_ParamsAndState0Untouched ==
  /\ params = args.params
  /\ state0 = args.state0
  /\ seenParams \subseteq {args.params}
  /\ (evals > 0) => (seenParams = {args.params})
  /\ Returned => evals = 4 * (n - 1)

\* dc_motor_ode integrated over two steps or more.
C10_Witness ==
  /\ args.f = "motor"
  /\ T0 < Tf
  /\ Dt > 0
  /\ Returned
  /\ evals >= 8
  /\ States[3] # States[1]

====
